---- MODULE Spec2Model ----
(***************************************************************************)
(* A model of src/app.py (flowall): the colour utility, the catalog of     *)
(* raster functions (over the Pillow operations they call) and the Dash    *)
(* callbacks behind the Run / Save / Restore / Clear buttons.              *)
(*                                                                         *)
(* Python values: None is the string "None"; a str is a sequence of        *)
(* one-character strings; a tuple is a sequence; a dict is a function.     *)
(* A raster is [mode, w, h, px] with px a function from <<column, row>>    *)
(* to the pixel tuple (3 channels in mode "RGB", 4 in mode "RGBA").        *)
(***************************************************************************)
EXTENDS Integers, Sequences, FiniteSets, TLC

VARIABLES
    hex_color,      \* hex_to_rgb: the argument string typed so far
    hex_result,     \* hex_to_rgb: "pending", or the outcome of the call
    alpha_call,     \* opacity / alpha arithmetic of one pixel and one transparency
    ov,             \* overlay_images: the arguments and the outcome of one call
    pat,            \* rectangular_pattern: arguments, canvas and loop position
    heap,           \* raster objects by identity (a sequence; index = identity)
    calls,          \* the catalog calls made on the upstream raster, in order
    nodes,          \* flowfunc.nodes: the editor's graph
    store,          \* save-store.data (browser local storage)
    output,         \* output.children
    nodes_status,   \* flowfunc.nodes_status
    editor_status,  \* flowfunc.editor_status
    runner,         \* the job runner: number of runs, the outnodes of the last and their order
    ui              \* the UI session: page loaded, last event, last saved graph, and the
                    \* initial callback calls not answered yet

vars == <<hex_color, hex_result, alpha_call, ov, pat, heap, calls, nodes, store,
          output, nodes_status, editor_status, runner, ui>>

\* The variables each part of the model leaves alone.
notHexVars == <<alpha_call, ov, pat, heap, calls, nodes, store, output, nodes_status,
                editor_status, runner, ui>>
notAlphaVars == <<hex_color, hex_result, ov, pat, heap, calls, nodes, store, output,
                  nodes_status, editor_status, runner, ui>>
notOvVars == <<hex_color, hex_result, alpha_call, pat, heap, calls, nodes, store, output,
               nodes_status, editor_status, runner, ui>>
notPatVars == <<hex_color, hex_result, alpha_call, ov, heap, calls, nodes, store, output,
                nodes_status, editor_status, runner, ui>>
notRasterVars == <<hex_color, hex_result, alpha_call, ov, pat, nodes, store, output,
                   nodes_status, editor_status, runner, ui>>
notUiVars == <<hex_color, hex_result, alpha_call, ov, pat, heap, calls>>

None == "None"

\* src/app.py:16
SCALE_FACTOR == 4

\* The largest value of an 8-bit channel.
MaxChannel == 255

Min(a, b) == IF a < b THEN a ELSE b
Max(a, b) == IF a > b THEN a ELSE b

(***************************************************************************)
(* hex_to_rgb                                                              *)
(***************************************************************************)

\* Bound: the longest argument string tried.
MaxHexLen == 8

\* The characters the argument strings are built from: '#', two hex digits,
\* a letter that is no hex digit, and the sign int() accepts.
HexChars == {"#", "1", "f", "g", "-"}

HexDigits == {"0", "1", "2", "3", "4", "5", "6", "7", "8", "9",
              "a", "b", "c", "d", "e", "f", "A", "B", "C", "D", "E", "F"}

DigitVal(c) ==
    CASE c = "0" -> 0 [] c = "1" -> 1 [] c = "2" -> 2 [] c = "3" -> 3
      [] c = "4" -> 4 [] c = "5" -> 5 [] c = "6" -> 6 [] c = "7" -> 7
      [] c = "8" -> 8 [] c = "9" -> 9
      [] c \in {"a", "A"} -> 10 [] c \in {"b", "B"} -> 11
      [] c \in {"c", "C"} -> 12 [] c \in {"d", "D"} -> 13
      [] c \in {"e", "E"} -> 14 [] c \in {"f", "F"} -> 15

\* str.lstrip("#"): every leading '#' is removed.
RECURSIVE LStripHash(_)
LStripHash(s) ==
    IF s # <<>> /\ Head(s) = "#" THEN LStripHash(Tail(s)) ELSE s

\* s[i : j] for 0 <= i <= j: the slice is clamped to the string.
PySlice(s, i, j) ==
    IF i >= Len(s) THEN <<>> ELSE SubSeq(s, i + 1, Min(j, Len(s)))

\* The value of a non-empty string of hex digits.
RECURSIVE HexValue(_)
HexValue(s) ==
    IF s = <<>> THEN 0 ELSE 16 * HexValue(SubSeq(s, 1, Len(s) - 1)) + DigitVal(s[Len(s)])

\* int(s, 16) on a string without blanks, underscores or a 0x prefix: an
\* optional sign, then at least one hex digit; anything else raises ValueError.
PyInt16(s) ==
    LET signed == s # <<>> /\ Head(s) \in {"-", "+"}
        digits == IF signed THEN Tail(s) ELSE s
        ok     == digits # <<>> /\ \A k \in 1..Len(digits) : digits[k] \in HexDigits
    IN  IF ~ok THEN [raised |-> TRUE, value |-> 0]
        ELSE [raised |-> FALSE,
              value  |-> IF signed /\ Head(s) = "-" THEN 0 - HexValue(digits)
                         ELSE HexValue(digits)]

hex_to_rgb(s) ==
    LET stripped == LStripHash(s)
        parts    == [k \in 1..3 |-> PyInt16(PySlice(stripped, 2 * (k - 1), 2 * k))]
    IN  IF \E k \in 1..3 : parts[k].raised
        THEN [pc |-> "done", raised |-> TRUE, value |-> <<>>]
        ELSE [pc |-> "done", raised |-> FALSE, value |-> [k \in 1..3 |-> parts[k].value]]

NoHexResult(pc) == [pc |-> pc, raised |-> FALSE, value |-> <<>>]

HexIdle == hex_color = <<>> /\ hex_result = NoHexResult("idle")

HexInit == hex_color = <<>> /\ hex_result = NoHexResult("pending")

\* One more character of the argument.
TypeChar ==
    /\ hex_result.pc = "pending"
    /\ Len(hex_color) < MaxHexLen
    /\ \E c \in HexChars : hex_color' = Append(hex_color, c)
    /\ UNCHANGED hex_result
    /\ UNCHANGED notHexVars

\* The call hex_to_rgb(hex_color).
CallHexToRgb ==
    /\ hex_result.pc = "pending"
    /\ hex_result' = hex_to_rgb(hex_color)
    /\ UNCHANGED hex_color
    /\ UNCHANGED notHexVars

HexNext == TypeChar \/ CallHexToRgb

(***************************************************************************)
(* Transparency percent -> opacity byte; the alpha of change_transparency  *)
(***************************************************************************)

\* Bound: the largest transparency percent tried.
MaxTransparency == 100

\* int(q) for the rational q = n / d, d > 0: truncation toward zero.
PyIntOfQuotient(n, d) ==
    IF n >= 0 THEN n \div d ELSE 0 - ((0 - n) \div d)

\* round-to-nearest of n / d (ties up), for n >= 0, d > 0.
RoundQuotient(n, d) == (2 * n + d) \div (2 * d)

\* round(255 * (1 - transparency / 100)): the opacity byte were it rounded.
OpacityRounded(transparency) ==
    RoundQuotient(255 * 100 - 255 * transparency, 100)

\* opacity = int(255 - 255 * (transparency / 100)); the float expression equals
\* the exact quotient (25500 - 255 t) / 100 up to an error far below the
\* distance to the next integer for every integer t in 0..101.
Opacity(transparency) ==
    PyIntOfQuotient(255 * 100 - 255 * transparency, 100)

\* ImagingGetInk's CLIP8: putdata stores each channel clipped to 0..255.
CLIP8(v) == IF v < 0 THEN 0 ELSE IF v > MaxChannel THEN MaxChannel ELSE v

\* change_transparency, line 95: the alpha computed for a pixel of alpha a.
NewAlpha(a, opacity) == a * opacity

AlphaIdle ==
    alpha_call = [pc |-> "idle", a |-> 0, transparency |-> 0,
                  opacity |-> None, computed |-> None, stored |-> None]

AlphaInit ==
    \E a \in 0..MaxChannel, t \in 0..MaxTransparency :
        alpha_call = [pc |-> "args", a |-> a, transparency |-> t,
                      opacity |-> None, computed |-> None, stored |-> None]

\* Line 93 (also lines 56 and 108): the opacity byte.
ComputeOpacity ==
    /\ alpha_call.pc = "args"
    /\ alpha_call' = [alpha_call EXCEPT !.pc = "opacity",
                                        !.opacity = Opacity(alpha_call.transparency)]
    /\ UNCHANGED notAlphaVars

\* Lines 94-96: the pixel's new alpha, and what putdata stores of it.
ScaleAlpha ==
    /\ alpha_call.pc = "opacity"
    /\ LET v == NewAlpha(alpha_call.a, alpha_call.opacity)
       IN  alpha_call' = [alpha_call EXCEPT !.pc = "done", !.computed = v,
                                            !.stored = CLIP8(v)]
    /\ UNCHANGED notAlphaVars

AlphaNext == ComputeOpacity \/ ScaleAlpha

(***************************************************************************)
(* Rasters and the Pillow operations the catalog calls                     *)
(***************************************************************************)

Coords(w, h) == (0..(w - 1)) \X (0..(h - 1))

\* Image.new(mode, (w, h), fill)
NewImage(mode, w, h, fill) ==
    [mode |-> mode, w |-> w, h |-> h, px |-> [p \in Coords(w, h) |-> fill]]

NoImage == [mode |-> "none", w |-> 0, h |-> 0, px |-> <<>>]

\* Image.convert("RGBA"): a new raster; an RGB pixel becomes opaque.
ConvertRGBA(img) ==
    IF img.mode = "RGBA" THEN img
    ELSE [img EXCEPT !.mode = "RGBA",
                     !.px = [p \in Coords(img.w, img.h) |-> Append(img.px[p], MaxChannel)]]

\* Image.crop(box), box = <<left, upper, right, lower>>: ValueError when right <
\* left or lower < upper; pixels of the box outside the raster are zero.
Crop(img, box) ==
    IF box[3] < box[1] \/ box[4] < box[2]
    THEN [raised |-> TRUE, img |-> NoImage]
    ELSE LET w == box[3] - box[1]
             h == box[4] - box[2]
             zero == IF img.mode = "RGBA" THEN <<0, 0, 0, 0>> ELSE <<0, 0, 0>>
         IN  [raised |-> FALSE,
              img |-> [mode |-> img.mode, w |-> w, h |-> h,
                       px |-> [p \in Coords(w, h) |->
                                 LET q == <<p[1] + box[1], p[2] + box[2]>>
                                 IN  IF q \in Coords(img.w, img.h) THEN img.px[q]
                                     ELSE zero]]]

\* ((a >> 8) + a) >> 8
SHIFTFORDIV255(a) == ((a \div 256) + a) \div 256

\* Paste.c, BLEND(mask, in1, in2): in1 where mask = 0, in2 where mask = 255.
BLEND(mask, in1, in2) == SHIFTFORDIV255(in1 * (255 - mask) + in2 * mask + 128)

\* dst.paste(src, (x, y), src) for RGBA rasters: src's alpha is the mask, every
\* band is blended, and the pasted box is clipped to dst.
PasteMasked(dst, src, x, y) ==
    [dst EXCEPT !.px = [p \in Coords(dst.w, dst.h) |->
        LET q == <<p[1] - x, p[2] - y>>
        IN  IF q \in Coords(src.w, src.h)
            THEN [k \in 1..4 |-> BLEND(src.px[q][4], dst.px[p][k], src.px[q][k])]
            ELSE dst.px[p]]]

\* int(a * (transparency / 255)): for the transparencies of Transparencies the
\* float product is within rounding of a * transparency / 255 and never falls
\* below an exact integer quotient.
OverlayAlpha(a, transparency) == (a * transparency) \div 255

\* Lines 151-154: copy(), then the alpha band mapped through Image.eval.
WithAlphaScaled(img, transparency) ==
    [img EXCEPT !.px = [p \in Coords(img.w, img.h) |->
        [img.px[p] EXCEPT ![4] = OverlayAlpha(img.px[p][4], transparency)]]]

(***************************************************************************)
(* overlay_images, one call, statement by statement                        *)
(***************************************************************************)

\* Bound: offsets are tried in -MaxOffset..MaxOffset (logical units).
MaxOffset == 3

\* The opacity bytes tried for overlay_images' transparency argument.
Transparencies == {0, 128, 255}

\* The pixel patterns of the rasters tried, by the role of the raster.
BasePixel(mode, p) ==
    IF mode = "RGBA" THEN <<10 + p[1], 20 + p[2], 30, 200>> ELSE <<10 + p[1], 20 + p[2], 30>>

OverlayPixel(mode, p) ==
    IF mode = "RGBA"
    THEN <<200 + p[1], 100 + p[2], 50, IF (p[1] + p[2]) % 3 = 0 THEN 0 ELSE 255>>
    ELSE <<200 + p[1], 100 + p[2], 50>>

UpPixel(mode, p) ==
    IF mode = "RGBA"
    THEN <<40 + p[1], 50 + p[2], 60,
           IF p[1] = 0 THEN 0 ELSE IF p[1] = 1 THEN 128 ELSE 255>>
    ELSE <<40 + p[1], 50 + p[2], 60>>

PixelOf(role, mode, p) ==
    CASE role = "base"     -> BasePixel(mode, p)
      [] role = "overlay"  -> OverlayPixel(mode, p)
      [] role = "upstream" -> UpPixel(mode, p)

Raster(role, mode, w, h) ==
    [mode |-> mode, w |-> w, h |-> h, px |-> [p \in Coords(w, h) |-> PixelOf(role, mode, p)]]

BaseRasters ==
    {Raster("base", "RGBA", 8, 8), Raster("base", "RGB", 8, 4),
     Raster("base", "RGBA", 4, 8)}

OverlayRasters ==
    {Raster("overlay", "RGBA", 4, 4), Raster("overlay", "RGBA", 10, 3),
     Raster("overlay", "RGB", 3, 10), Raster("overlay", "RGBA", 10, 10)}

\* The locals of a call after lines 145-147: position, and the overlay made RGBA.
OvStart(b, o, dx, dy, t) ==
    [pc |-> "transparency", base_image |-> b, overlay_arg |-> o,
     offset_x |-> dx, offset_y |-> dy, transparency |-> t,
     overlay_image |-> ConvertRGBA(o),
     x |-> dx * SCALE_FACTOR, y |-> dy * SCALE_FACTOR,
     base_width |-> 0, base_height |-> 0,
     overlay_width |-> 0, overlay_height |-> 0,
     raised |-> FALSE, combined_image |-> NoImage]

\* The locals after a crop of overlay_image to box; newx, newy are x and y afterwards.
AfterCrop(o, box, newx, newy, nextpc) ==
    LET c == Crop(o.overlay_image, box)
    IN  IF c.raised THEN [o EXCEPT !.pc = "done", !.raised = TRUE]
        ELSE [o EXCEPT !.pc = nextpc, !.overlay_image = c.img, !.x = newx, !.y = newy]

\* Lines 150-158: the transparency, then the sizes are read once.
OvTransparencyStep(o) ==
    LET img == IF o.transparency < 255
               THEN WithAlphaScaled(o.overlay_image, o.transparency)
               ELSE o.overlay_image
    IN  [o EXCEPT !.pc = "left", !.overlay_image = img,
                  !.base_width = o.base_image.w, !.base_height = o.base_image.h,
                  !.overlay_width = img.w, !.overlay_height = img.h]

\* Lines 162-164
OvLeftStep(o) ==
    IF o.x < 0
    THEN AfterCrop(o, <<0 - o.x, 0, o.overlay_width, o.overlay_height>>, 0, o.y, "top")
    ELSE [o EXCEPT !.pc = "top"]

\* Lines 165-167
OvTopStep(o) ==
    IF o.y < 0
    THEN AfterCrop(o, <<0, 0 - o.y, o.overlay_width, o.overlay_height>>, o.x, 0, "right")
    ELSE [o EXCEPT !.pc = "right"]

\* Lines 168-169
OvRightStep(o) ==
    IF o.x + o.overlay_width > o.base_width
    THEN AfterCrop(o, <<0, 0, o.base_width - o.x, o.overlay_height>>, o.x, o.y, "bottom")
    ELSE [o EXCEPT !.pc = "bottom"]

\* Lines 170-171
OvBottomStep(o) ==
    IF o.y + o.overlay_height > o.base_height
    THEN AfterCrop(o, <<0, 0, o.overlay_width, o.base_height - o.y>>, o.x, o.y, "paste")
    ELSE [o EXCEPT !.pc = "paste"]

\* Lines 174-177
OvPasteStep(o) ==
    [o EXCEPT !.pc = "done",
              !.combined_image =
                  PasteMasked(ConvertRGBA(o.base_image), o.overlay_image, o.x, o.y)]

\* overlay_images as one call: the locals at its end (raised, or combined_image).
\* A crop that raises ends the call.
overlay_images(b, o, dx, dy, t) ==
    LET s1 == OvTransparencyStep(OvStart(b, o, dx, dy, t))
        s2 == OvLeftStep(s1)
        s3 == IF s2.raised THEN s2 ELSE OvTopStep(s2)
        s4 == IF s3.raised THEN s3 ELSE OvRightStep(s3)
        s5 == IF s4.raised THEN s4 ELSE OvBottomStep(s4)
    IN  IF s5.raised THEN s5 ELSE OvPasteStep(s5)

OvIdle == ov = [OvStart(NoImage, NoImage, 0, 0, 0) EXCEPT !.pc = "idle"]

OvInit ==
    \E b \in BaseRasters, o \in OverlayRasters,
       dx \in (0 - MaxOffset)..MaxOffset, dy \in (0 - MaxOffset)..MaxOffset,
       t \in Transparencies :
        ov = OvStart(b, o, dx, dy, t)

OvTransparency == ov.pc = "transparency" /\ ov' = OvTransparencyStep(ov)
    /\ UNCHANGED notOvVars

OvEdgeLeft == ov.pc = "left" /\ ov' = OvLeftStep(ov)
    /\ UNCHANGED notOvVars

OvEdgeTop == ov.pc = "top" /\ ov' = OvTopStep(ov)
    /\ UNCHANGED notOvVars

OvEdgeRight == ov.pc = "right" /\ ov' = OvRightStep(ov)
    /\ UNCHANGED notOvVars

OvEdgeBottom == ov.pc = "bottom" /\ ov' = OvBottomStep(ov)
    /\ UNCHANGED notOvVars

OvPaste == ov.pc = "paste" /\ ov' = OvPasteStep(ov)
    /\ UNCHANGED notOvVars

OvNext ==
    \/ OvTransparency
    \/ OvEdgeLeft
    \/ OvEdgeTop
    \/ OvEdgeRight
    \/ OvEdgeBottom
    \/ OvPaste

(***************************************************************************)
(* rectangular_pattern: the canvas and the placement loop                  *)
(***************************************************************************)

\* Bounds: counts in 0..MaxCount, steps in 0..MaxStep (logical units).
MaxCount == 2
MaxStep == 2

\* The tiles tried: <<mode, width, height>>.
Tiles == {<<"RGBA", 4, 4>>, <<"RGBA", 8, 4>>, <<"RGBA", 6, 10>>, <<"RGB", 4, 4>>}

\* Lines 121-126, one axis: count * step, plus the tile's overflow when the
\* (scaled) step is smaller than the tile.
NewExtent(count, step, size) ==
    IF step < size THEN count * step + (size - step) ELSE count * step

\* Image.alpha_composite needs both rasters RGBA; new_image is RGBA.
CompositeRaises(mode) == mode # "RGBA"

PatIdle ==
    pat = [pc |-> "idle", mode |-> "RGBA", width |-> 0, height |-> 0,
           count_x |-> 0, count_y |-> 0, step_x |-> 0, step_y |-> 0,
           arg_step_x |-> 0, arg_step_y |-> 0,
           new_width |-> 0, new_height |-> 0, x |-> 0, y |-> 0,
           placed |-> <<>>, raised |-> FALSE]

\* The arguments; step_x, step_y are the logical steps until lines 118-119 scale
\* them, and arg_step_x, arg_step_y keep the steps as passed.
PatInit ==
    \E t \in Tiles, cx \in 0..MaxCount, cy \in 0..MaxCount,
       sx \in 0..MaxStep, sy \in 0..MaxStep :
        pat = [pc |-> "canvas", mode |-> t[1], width |-> t[2], height |-> t[3],
               count_x |-> cx, count_y |-> cy, step_x |-> sx, step_y |-> sy,
               arg_step_x |-> sx, arg_step_y |-> sy,
               new_width |-> 0, new_height |-> 0, x |-> 0, y |-> 0,
               placed |-> <<>>, raised |-> FALSE]

\* Lines 118-127: the scaled steps and the canvas.
PatCanvas ==
    /\ pat.pc = "canvas"
    /\ LET sx == pat.step_x * SCALE_FACTOR
           sy == pat.step_y * SCALE_FACTOR
       IN  pat' = [pat EXCEPT !.pc = "loop", !.step_x = sx, !.step_y = sy,
                              !.new_width = NewExtent(pat.count_x, sx, pat.width),
                              !.new_height = NewExtent(pat.count_y, sy, pat.height)]
    /\ UNCHANGED notPatVars

\* Line 130, one iteration of the nested loops (x outer, y inner).
PatPlace ==
    /\ pat.pc = "loop"
    /\ pat.x < pat.count_x /\ pat.y < pat.count_y
    /\ pat' = IF CompositeRaises(pat.mode)
              THEN [pat EXCEPT !.pc = "done", !.raised = TRUE]
              ELSE [pat EXCEPT
                      !.placed = Append(pat.placed,
                                        <<pat.x * pat.step_x, pat.y * pat.step_y>>),
                      !.x = IF pat.y + 1 = pat.count_y THEN pat.x + 1 ELSE pat.x,
                      !.y = IF pat.y + 1 = pat.count_y THEN 0 ELSE pat.y + 1]
    /\ UNCHANGED notPatVars

\* Line 131: both ranges are exhausted.
PatReturn ==
    /\ pat.pc = "loop"
    /\ ~(pat.x < pat.count_x /\ pat.y < pat.count_y)
    /\ pat' = [pat EXCEPT !.pc = "done"]
    /\ UNCHANGED notPatVars

PatNext == PatCanvas \/ PatPlace \/ PatReturn

(***************************************************************************)
(* The catalog functions as calls on raster objects                        *)
(***************************************************************************)

\* AlphaComposite.c: src over dst, one RGBA pixel (7 bits of extra precision).
AlphaCompositePixel(dst, src) ==
    IF src[4] = 0 THEN dst
    ELSE LET blend   == dst[4] * (255 - src[4])
             outa255 == src[4] * 255 + blend
             coef1   == (src[4] * 255 * 255 * 128) \div outa255
             coef2   == 255 * 128 - coef1
         IN  [k \in 1..4 |->
                IF k = 4 THEN SHIFTFORDIV255(outa255 + 128)
                ELSE SHIFTFORDIV255(src[k] * coef1 + dst[k] * coef2 + 128 * 128) \div 128]

\* canvas.alpha_composite(tile, (x, y)), in place on canvas.
AlphaCompositeAt(canvas, tile, x, y) ==
    [canvas EXCEPT !.px = [p \in Coords(canvas.w, canvas.h) |->
        LET q == <<p[1] - x, p[2] - y>>
        IN  IF q \in Coords(tile.w, tile.h)
            THEN AlphaCompositePixel(canvas.px[p], tile.px[q])
            ELSE canvas.px[p]]]

\* The offsets of lines 128-130 in loop order (x outer, y inner).
Placements(count_x, count_y, step_x, step_y) ==
    [k \in 1..(count_x * count_y) |->
        <<((k - 1) \div count_y) * step_x, ((k - 1) % count_y) * step_y>>]

RECURSIVE CompositeAll(_, _, _)
CompositeAll(canvas, tile, places) ==
    IF places = <<>> THEN canvas
    ELSE CompositeAll(AlphaCompositeAt(canvas, tile, Head(places)[1], Head(places)[2]),
                      tile, Tail(places))

\* rectangular_pattern as one call.
rectangular_pattern(image, count_x, count_y, step_x, step_y) ==
    LET sx == step_x * SCALE_FACTOR
        sy == step_y * SCALE_FACTOR
        new_image == NewImage("RGBA", NewExtent(count_x, sx, image.w),
                              NewExtent(count_y, sy, image.h), <<255, 255, 255, 0>>)
        places == Placements(count_x, count_y, sx, sy)
    IN  IF places # <<>> /\ CompositeRaises(image.mode)
        THEN [raised |-> TRUE, img |-> NoImage]
        ELSE [raised |-> FALSE, img |-> CompositeAll(new_image, image, places)]

\* image.rotate(angle, expand=True) for a multiple of 90 degrees: a copy or a
\* transpose (counter-clockwise for a positive angle).
rotate(image, angle) ==
    LET a == angle % 360
    IN  CASE a = 0   -> image
          [] a = 180 -> [image EXCEPT !.px = [p \in Coords(image.w, image.h) |->
                            image.px[<<image.w - 1 - p[1], image.h - 1 - p[2]>>]]]
          [] a = 90  -> [mode |-> image.mode, w |-> image.h, h |-> image.w,
                         px |-> [p \in Coords(image.h, image.w) |->
                                   image.px[<<image.w - 1 - p[2], p[1]>>]]]
          [] a = 270 -> [mode |-> image.mode, w |-> image.h, h |-> image.w,
                         px |-> [p \in Coords(image.h, image.w) |->
                                   image.px[<<p[2], image.h - 1 - p[1]>>]]]

\* preview_image: the html.Img of the raster resized to 1 / SCALE_FACTOR; only
\* the size of the encoded picture is modelled.
preview_image(image) ==
    [mode |-> "Img", w |-> image.w \div SCALE_FACTOR, h |-> image.h \div SCALE_FACTOR,
     px |-> <<>>]

\* A change_color that recolours the transparent pixels too.
ChangeColorPixelAll(item, rgb) ==
    [k \in 1..4 |-> IF k = 4 THEN CLIP8(item[4]) ELSE CLIP8(rgb[k])]

\* Line 83 (and 81): the new pixel of change_color, as putdata stores it.
ChangeColorPixel(item, rgb) ==
    IF item[4] = 0 THEN item
    ELSE [k \in 1..4 |-> IF k = 4 THEN CLIP8(item[4]) ELSE CLIP8(rgb[k])]

\* Line 95: the new pixel of change_transparency, as putdata stores it.
ChangeTransparencyPixel(item, opacity) ==
    [k \in 1..4 |-> IF k = 4 THEN CLIP8(NewAlpha(item[4], opacity)) ELSE CLIP8(item[k])]

\* Lines 76-84: the data putdata writes into the (RGBA) raster.
ChangeColorData(image, color) ==
    LET rgb == hex_to_rgb(color)
    IN  IF rgb.raised /\ \E p \in DOMAIN image.px : image.px[p][4] # 0
        THEN [raised |-> TRUE, img |-> image]
        ELSE [raised |-> FALSE,
              img |-> [image EXCEPT !.px = [p \in DOMAIN image.px |->
                                              ChangeColorPixel(image.px[p], rgb.value)]]]

\* Lines 91-96
ChangeTransparencyData(image, transparency) ==
    [image EXCEPT !.px = [p \in DOMAIN image.px |->
                            ChangeTransparencyPixel(image.px[p], Opacity(transparency))]]

\* Lines 74-75 and 89-90: the object putdata writes to is the argument itself
\* when it is RGBA already, and convert()'s new raster otherwise.
WrittenObject(h, image) ==
    IF h[image].mode # "RGBA" THEN Len(h) + 1 ELSE image

\* The heap with raster r stored as object id (a new object when id is past the end).
Stored(h, id, r) ==
    IF id = Len(h) + 1 THEN Append(h, r) ELSE [h EXCEPT ![id] = r]

\* Bound: the number of catalog calls made in one run.
MaxCalls == 2

\* The colours tried, with the triple each denotes.
Colors ==
    {[hex |-> <<"#", "f", "f", "0", "0", "8", "0">>, rgb |-> <<255, 0, 128>>],
     [hex |-> <<"1", "0", "2", "0", "3", "0">>, rgb |-> <<16, 32, 48>>]}

\* The transparency percents tried on rasters.
Percents == {0, 30, 100}

UpstreamRasters ==
    {Raster("upstream", "RGBA", 4, 4), Raster("upstream", "RGB", 4, 4),
     Raster("upstream", "RGBA", 8, 4)}

\* The <<count_x, count_y, step_x, step_y>> tried on rasters.
PatternArgs == {<<1, 1, 1, 1>>, <<2, 1, 0, 1>>}

Angles == {0, 90, 180, 270}

RasterIdle == heap = <<>> /\ calls = <<>>

\* Two upstream rasters, objects 1 and 2, produced by earlier nodes.
RasterInit ==
    /\ \E u \in UpstreamRasters : heap = <<u, Raster("overlay", "RGBA", 4, 4)>>
    /\ calls = <<>>

CallRecord(fn, image, other, arg, ret, result, raised) ==
    [fn |-> fn, image |-> image, saw |-> heap[image],
     other |-> other, saw_other |-> IF other = 0 THEN NoImage ELSE heap[other],
     arg |-> arg, ret |-> ret, result |-> result, raised |-> raised]

\* A call whose result is a new object and which writes to no other object.
ReturnsNew(fn, image, other, arg, r) ==
    IF r.raised
    THEN /\ calls' = Append(calls, CallRecord(fn, image, other, arg, 0, NoImage, TRUE))
         /\ UNCHANGED heap
    ELSE /\ heap' = Append(heap, r.img)
         /\ calls' = Append(calls, CallRecord(fn, image, other, arg, Len(heap) + 1,
                                              r.img, FALSE))

CallChangeColor ==
    /\ Len(calls) < MaxCalls
    /\ \E c \in Colors :
        LET id == WrittenObject(heap, 1)
            r  == ChangeColorData(ConvertRGBA(heap[1]), c.hex)
        IN  /\ heap' = IF r.raised THEN heap ELSE Stored(heap, id, r.img)
            /\ calls' = Append(calls, CallRecord("change_color", 1, 0, c,
                                                 IF r.raised THEN 0 ELSE id,
                                                 r.img, r.raised))
    /\ UNCHANGED notRasterVars

CallChangeTransparency ==
    /\ Len(calls) < MaxCalls
    /\ \E t \in Percents :
        LET id == WrittenObject(heap, 1)
            r  == ChangeTransparencyData(ConvertRGBA(heap[1]), t)
        IN  /\ heap' = Stored(heap, id, r)
            /\ calls' = Append(calls, CallRecord("change_transparency", 1, 0, t,
                                                 id, r, FALSE))
    /\ UNCHANGED notRasterVars

CallOverlayImages ==
    /\ Len(calls) < MaxCalls
    /\ \E b \in 1..2, t \in {128, 255} :
        LET o == overlay_images(heap[b], heap[3 - b], 0, 0, t)
        IN  ReturnsNew("overlay_images", b, 3 - b, t,
                       [raised |-> o.raised, img |-> o.combined_image])
    /\ UNCHANGED notRasterVars

CallRectangularPattern ==
    /\ Len(calls) < MaxCalls
    /\ \E a \in PatternArgs :
        ReturnsNew("rectangular_pattern", 1, 0, a,
                   rectangular_pattern(heap[1], a[1], a[2], a[3], a[4]))
    /\ UNCHANGED notRasterVars

CallRotate ==
    /\ Len(calls) < MaxCalls
    /\ \E a \in Angles :
        ReturnsNew("rotate", 1, 0, a, [raised |-> FALSE, img |-> rotate(heap[1], a)])
    /\ UNCHANGED notRasterVars

CallPreviewImage ==
    /\ Len(calls) < MaxCalls
    /\ ReturnsNew("preview_image", 1, 0, 0,
                  [raised |-> FALSE, img |-> preview_image(heap[1])])
    /\ UNCHANGED notRasterVars

RasterNext ==
    \/ CallChangeColor
    \/ CallChangeTransparency
    \/ CallOverlayImages
    \/ CallRectangularPattern
    \/ CallRotate
    \/ CallPreviewImage

(***************************************************************************)
(* The Dash callbacks: run_job, save_image, restore_image                  *)
(*                                                                         *)
(* A component property is a set: {} while it is None, {v} when it holds   *)
(* v.  A graph (flowfunc.nodes) is a dict from node ids to node types.     *)
(***************************************************************************)

\* Bound: the number of times the job runner is run.
MaxRuns == 1

Unset == {}

NodeIds == {"n1", "n2"}

NodeTypes == {"__main__.rectangle", "__main__.preview_image"}

Graphs == UNION {[S -> NodeTypes] : S \in SUBSET NodeIds}

EmptyGraph == <<>>

\* Python's "not v" for a property holding None or a dict.
Falsy(prop) == prop = Unset \/ \E g \in prop : DOMAIN g = {}

\* The orders in which a dict with keys S can iterate: a dict iterates in
\* insertion order, and the order in which the job runner inserts its outnodes
\* is its own.
Orders(S) ==
    {s \in [1..Cardinality(S) -> S] : \A i, j \in 1..Cardinality(S) : s[i] = s[j] => i = j}

\* JobRunner.run(nodes) when the nodes in failed fail: an OutNode per node; a
\* failed node has no result.
OutNodes(g, failed, run) ==
    [id \in DOMAIN g |->
        [type   |-> g[id],
         status |-> IF id \in failed THEN "failed" ELSE "success",
         result |-> IF id \in failed THEN <<"None">>
                    ELSE <<IF g[id] = "__main__.preview_image" THEN "Img" ELSE "Image",
                           id, run>>]]

\* Lines 257-265: the children built from the outnodes, iterated in order ids.
RECURSIVE Children(_, _)
Children(outnodes, ids) ==
    IF ids = <<>> THEN <<>>
    ELSE (IF outnodes[Head(ids)].type = "__main__.preview_image"
          THEN <<outnodes[Head(ids)].result>> ELSE <<>>)
         \o Children(outnodes, Tail(ids))

\* Lines 257-265: the status map built from the outnodes.
StatusMap(outnodes) == [id \in DOMAIN outnodes |-> outnodes[id].status]

\* Lines 255-265: what run_job returns for the runner's outnodes: the new
\* output.children and nodes_status.  With no outnodes, line 256 indexes the
\* keys of the nodes dict (strings) with "id" and raises: nothing is updated.
RunJobOutputs(outnodes, order, old_output, old_status) ==
    IF DOMAIN outnodes = {}
    THEN [children |-> old_output, status |-> old_status, raised |-> TRUE]
    ELSE [children |-> {Children(outnodes, order)},
          status   |-> {StatusMap(outnodes)}, raised |-> FALSE]

\* A save_image without the guard on an empty graph.
SaveStoreDataUnguarded(n_clicked, nodes_state, old_store) ==
    IF ~n_clicked THEN old_store ELSE nodes_state

\* Lines 273-275: the new save-store.data.
SaveStoreData(n_clicked, nodes_state, old_store) ==
    IF ~n_clicked \/ Falsy(nodes_state) THEN old_store ELSE nodes_state

\* Lines 287-296: the new flowfunc.nodes and editor_status.
RestoreOutputs(triggered_id, store_data, nodes_state, old_status) ==
    IF triggered_id = "none" THEN <<nodes_state, {"server"}>>
    ELSE IF triggered_id = "restore-button"
    THEN IF ~Falsy(store_data) THEN <<store_data, {"server"}>>
         ELSE <<nodes_state, old_status>>
    ELSE IF triggered_id = "clear-button" THEN <<{EmptyGraph}, {"server"}>>
    ELSE <<nodes_state, {"server"}>>

UiIdle ==
    /\ nodes = Unset /\ store = Unset /\ output = Unset /\ nodes_status = Unset
    /\ editor_status = Unset
    /\ runner = [runs |-> 0, outnodes |-> <<>>, order |-> <<>>]
    /\ ui = [loaded |-> FALSE, event |-> "idle", saved |-> Unset, raised |-> FALSE,
             pending |-> {}]

\* Before the page is opened for the first time: nothing is stored.
UiInit ==
    /\ nodes = Unset /\ store = Unset /\ output = Unset /\ nodes_status = Unset
    /\ editor_status = Unset
    /\ runner = [runs |-> 0, outnodes |-> <<>>, order |-> <<>>]
    /\ ui = [loaded |-> FALSE, event |-> "init", saved |-> Unset, raised |-> FALSE,
             pending |-> {}]

\* The page is (re)loaded: the layout of lines 201-242 is rendered afresh (no
\* property of it is set), local storage persists, and the initial calls of
\* the three callbacks are sent, with n_clicks None, nothing triggered and the
\* State of the fresh layout (nodes None).  Each is answered on its own, later;
\* the calls of a page that is gone are dropped.
PageLoad ==
    /\ nodes' = Unset
    /\ editor_status' = Unset
    /\ output' = Unset
    /\ nodes_status' = Unset
    /\ ui' = [ui EXCEPT !.loaded = TRUE, !.event = "load", !.raised = FALSE,
                        !.pending = {"run_job", "save_image", "restore_image"}]
    /\ UNCHANGED <<store, runner>>
    /\ UNCHANGED notUiVars

\* The initial call of run_job is answered: n_clicks is None, lines 252-253
\* return no_update for both outputs and the job runner is not run.
InitialRunJob ==
    /\ "run_job" \in ui.pending
    /\ ui' = [ui EXCEPT !.event = "initial_run", !.raised = FALSE,
                        !.pending = ui.pending \ {"run_job"}]
    /\ UNCHANGED <<nodes, store, output, nodes_status, editor_status, runner>>
    /\ UNCHANGED notUiVars

\* The initial call of save_image is answered: n_clicks is None, lines 273-274.
InitialSaveImage ==
    /\ "save_image" \in ui.pending
    /\ store' = SaveStoreData(FALSE, Unset, store)
    /\ ui' = [ui EXCEPT !.event = "initial_save", !.raised = FALSE,
                        !.pending = ui.pending \ {"save_image"}]
    /\ UNCHANGED <<nodes, output, nodes_status, editor_status, runner>>
    /\ UNCHANGED notUiVars

\* The initial call of restore_image is answered: nothing triggered it, lines
\* 287-288 return the nodes it was sent with (None) and "server", whatever the
\* editor holds by now.
InitialRestoreImage ==
    /\ "restore_image" \in ui.pending
    /\ LET r == RestoreOutputs("none", store, Unset, editor_status)
       IN  nodes' = r[1] /\ editor_status' = r[2]
    /\ ui' = [ui EXCEPT !.event = "initial_restore", !.raised = FALSE,
                        !.pending = ui.pending \ {"restore_image"}]
    /\ UNCHANGED <<store, output, nodes_status, runner>>
    /\ UNCHANGED notUiVars

\* The user edits the graph in the editor.
EditGraph ==
    /\ ui.loaded
    /\ \E g \in Graphs : nodes' = {g}
    /\ ui' = [ui EXCEPT !.event = "edit", !.raised = FALSE]
    /\ UNCHANGED <<store, output, nodes_status, editor_status, runner>>
    /\ UNCHANGED notUiVars

\* Run is clicked: run_job, lines 251-265.
ClickRun ==
    /\ ui.loaded
    /\ IF Falsy(nodes)
       THEN /\ ui' = [ui EXCEPT !.event = "run", !.raised = FALSE]
            /\ UNCHANGED <<output, nodes_status, runner>>
       ELSE /\ runner.runs < MaxRuns
            /\ \E g \in nodes, failed \in SUBSET NodeIds, empty \in BOOLEAN :
                 LET outnodes == IF empty THEN <<>>
                                 ELSE OutNodes(g, failed \cap DOMAIN g, runner.runs + 1)
                 IN  \E order \in Orders(DOMAIN outnodes) :
                     LET r == RunJobOutputs(outnodes, order, output, nodes_status)
                     IN
                     /\ failed \subseteq DOMAIN g
                     /\ empty => failed = {}
                     /\ runner' = [runs |-> runner.runs + 1, outnodes |-> outnodes,
                                   order |-> order]
                     /\ output' = r.children
                     /\ nodes_status' = r.status
                     /\ ui' = [ui EXCEPT !.event = "run", !.raised = r.raised]
    /\ UNCHANGED <<nodes, store, editor_status>>
    /\ UNCHANGED notUiVars

\* Save is clicked: save_image, lines 272-275.  ui.saved remembers the graph
\* that was in the editor at the latest Save with a non-empty graph.
ClickSave ==
    /\ ui.loaded
    /\ store' = SaveStoreData(TRUE, nodes, store)
    /\ ui' = [ui EXCEPT !.event = "save", !.raised = FALSE,
                        !.saved = IF Falsy(nodes) THEN ui.saved ELSE nodes]
    /\ UNCHANGED <<nodes, output, nodes_status, editor_status, runner>>
    /\ UNCHANGED notUiVars

\* Restore is clicked: restore_image, lines 286-293.
ClickRestore ==
    /\ ui.loaded
    /\ LET r == RestoreOutputs("restore-button", store, nodes, editor_status)
       IN  nodes' = r[1] /\ editor_status' = r[2]
    /\ ui' = [ui EXCEPT !.event = "restore", !.raised = FALSE]
    /\ UNCHANGED <<store, output, nodes_status, runner>>
    /\ UNCHANGED notUiVars

\* Clear is clicked: restore_image, lines 294-295.
ClickClear ==
    /\ ui.loaded
    /\ LET r == RestoreOutputs("clear-button", store, nodes, editor_status)
       IN  nodes' = r[1] /\ editor_status' = r[2]
    /\ ui' = [ui EXCEPT !.event = "clear", !.raised = FALSE]
    /\ UNCHANGED <<store, output, nodes_status, runner>>
    /\ UNCHANGED notUiVars

UiNext ==
    \/ PageLoad
    \/ InitialRunJob
    \/ InitialSaveImage
    \/ InitialRestoreImage
    \/ EditGraph
    \/ ClickRun
    \/ ClickSave
    \/ ClickRestore
    \/ ClickClear

(***************************************************************************)
(* Specifications: one per part of the program                             *)
(***************************************************************************)

InitHex == HexInit /\ AlphaIdle /\ OvIdle /\ PatIdle /\ RasterIdle /\ UiIdle
SpecHex == InitHex /\ [][HexNext]_vars

InitAlpha == AlphaInit /\ HexIdle /\ OvIdle /\ PatIdle /\ RasterIdle /\ UiIdle
SpecAlpha == InitAlpha /\ [][AlphaNext]_vars

InitOverlay == OvInit /\ HexIdle /\ AlphaIdle /\ PatIdle /\ RasterIdle /\ UiIdle
SpecOverlay == InitOverlay /\ [][OvNext]_vars

InitPattern == PatInit /\ HexIdle /\ AlphaIdle /\ OvIdle /\ RasterIdle /\ UiIdle
SpecPattern == InitPattern /\ [][PatNext]_vars

InitRaster == RasterInit /\ HexIdle /\ AlphaIdle /\ OvIdle /\ PatIdle /\ UiIdle
SpecRaster == InitRaster /\ [][RasterNext]_vars

InitUi == UiInit /\ HexIdle /\ AlphaIdle /\ OvIdle /\ PatIdle /\ RasterIdle
SpecUi == InitUi /\ [][UiNext]_vars

(***************************************************************************)
(* Properties                                                              *)
(***************************************************************************)

\* ---- hex_to_rgb

\* The input is, after one optional leading '#', exactly 6 hex digits.
WellFormedColor(s) ==
    LET body == IF s # <<>> /\ Head(s) = "#" THEN Tail(s) ELSE s
    IN  Len(body) = 6 /\ \A k \in 1..6 : body[k] \in HexDigits

\* C4: hex_to_rgb returns a triple of integers in 0..255 exactly when its input,
\* after removing an optional single leading '#', is exactly 6 hexadecimal
\* digits; every other input fails with an error.
C4_HexStrict ==
    hex_result.pc = "done" =>
        /\ ~hex_result.raised <=> WellFormedColor(hex_color)
        /\ ~hex_result.raised =>
              /\ Len(hex_result.value) = 3
              /\ \A k \in 1..3 : hex_result.value[k] \in 0..255

\* ---- the opacity byte

\* C5 as stated: for every transparency in 0..100 the opacity byte equals
\* round(255 * (1 - transparency / 100)).
C5_OpacityRounded ==
    (alpha_call.pc \in {"opacity", "done"} /\ alpha_call.transparency \in 0..100) =>
        alpha_call.opacity = OpacityRounded(alpha_call.transparency)

\* C7: the alpha change_transparency computes for a pixel of alpha a lies in
\* 0..255 and is never greater than a; transparency 0 leaves it unchanged and
\* transparency 100 makes it 0.
C7_AlphaScaled ==
    (alpha_call.pc = "done" /\ alpha_call.transparency \in 0..100) =>
        /\ alpha_call.computed \in 0..255
        /\ alpha_call.computed <= alpha_call.a
        /\ alpha_call.transparency = 0 => alpha_call.computed = alpha_call.a
        /\ alpha_call.transparency = 100 => alpha_call.computed = 0

\* ---- overlay_images

\* The overlay as passed lies fully outside the base.
FullyOutside(o) ==
    LET x0 == o.offset_x * 4
        y0 == o.offset_y * 4
    IN  \/ x0 <= 0 - o.overlay_arg.w
        \/ x0 >= o.base_image.w
        \/ y0 <= 0 - o.overlay_arg.h
        \/ y0 >= o.base_image.h

\* The pixels of the base with an opaque alpha added to an RGB pixel.
BasePixels(o) ==
    [p \in Coords(o.base_image.w, o.base_image.h) |->
        IF o.base_image.mode = "RGBA" THEN o.base_image.px[p]
        ELSE o.base_image.px[p] \o <<255>>]

\* C1: overlay_images completes without raising and returns a raster of the
\* base's width and height, for every offset; when the overlay lies fully
\* outside the base the result's pixels equal the base's.
C1_OverlayTotal ==
    ov.pc = "done" =>
        /\ ~ov.raised
        /\ ov.combined_image.w = ov.base_image.w
        /\ ov.combined_image.h = ov.base_image.h
        /\ FullyOutside(ov) => ov.combined_image.px = BasePixels(ov)

\* C8: once the four edge checks have run, the overlay region to be pasted is
\* exactly the intersection of the overlay's placed box with the base: the
\* paste position is the intersection's origin and the region's width and
\* height are the intersection's.
C8_PastedIsIntersection ==
    ov.pc = "paste" =>
        LET x0 == ov.offset_x * 4
            y0 == ov.offset_y * 4
            left   == Max(x0, 0)
            top    == Max(y0, 0)
            right  == Min(x0 + ov.overlay_arg.w, ov.base_image.w)
            bottom == Min(y0 + ov.overlay_arg.h, ov.base_image.h)
        IN  /\ ov.x = left
            /\ ov.y = top
            /\ ov.overlay_image.w = Max(right - left, 0)
            /\ ov.overlay_image.h = Max(bottom - top, 0)

\* ---- rectangular_pattern

\* The tile copies placed so far are the first ones of the grid, in loop order,
\* each inside the canvas.
PlacedOnGridInside ==
    \A k \in DOMAIN pat.placed :
        LET i == (k - 1) \div pat.count_y
            j == (k - 1) % pat.count_y
            d == pat.placed[k]
        IN  /\ i < pat.count_x /\ j < pat.count_y
            /\ d = <<i * pat.arg_step_x * 4, j * pat.arg_step_y * 4>>
            /\ d[1] + pat.width <= pat.new_width
            /\ d[2] + pat.height <= pat.new_height

\* The canvas extent of one axis: count * step * 4, enlarged by the tile's
\* overflow only where the step is smaller than the tile.
CanvasExtent(count, step, size) ==
    count * step * 4 + (IF step * 4 < size THEN size - step * 4 ELSE 0)

PatternCommon ==
    /\ PlacedOnGridInside
    /\ pat.new_width = CanvasExtent(pat.count_x, pat.arg_step_x, pat.width)
    /\ pat.new_height = CanvasExtent(pat.count_y, pat.arg_step_y, pat.height)
    /\ (pat.count_x = 0 \/ pat.count_y = 0) => pat.placed = <<>>

\* C9: for every tile, counts and steps, each of the count_x * count_y tile
\* copies is placed on the grid and inside the canvas at every iteration of the
\* placement loop, so that the call returns with all of them placed; the canvas
\* is count * step * 4 per axis, enlarged by the overflow only where the step is
\* smaller than the tile; and when a count is 0 no tile is placed and the canvas
\* has zero extent on that axis.
C9_PatternPlaced ==
    pat.pc \in {"loop", "done"} =>
        /\ PatternCommon
        /\ pat.pc = "done" =>
               ~pat.raised /\ Len(pat.placed) = pat.count_x * pat.count_y
        /\ pat.count_x = 0 => pat.new_width = 0
        /\ pat.count_y = 0 => pat.new_height = 0

\* ---- the catalog functions and their raster arguments

\* The raster arguments of a call: <<object, raster seen at the call>>.
ArgsOf(c) ==
    {<<c.image, c.saw>>} \cup (IF c.other = 0 THEN {} ELSE {<<c.other, c.saw_other>>})

\* C2: every catalog function leaves the pixels of its raster argument(s)
\* unchanged and returns a new raster: an upstream raster passed to two calls
\* shows the second call the pixels the first one saw.
C2_ArgumentsUnchanged ==
    \A i \in DOMAIN calls :
        \A a \in ArgsOf(calls[i]) :
            /\ heap[a[1]] = a[2]
            /\ ~calls[i].raised => calls[i].ret # a[1]
            /\ \A j \in DOMAIN calls : \A b \in ArgsOf(calls[j]) :
                   a[1] = b[1] => a[2] = b[2]

\* The alpha of pixel p of a raster (an RGB pixel is opaque).
AlphaOf(img, p) == IF img.mode = "RGBA" THEN img.px[p][4] ELSE 255

RGBOf(img, p) == <<img.px[p][1], img.px[p][2], img.px[p][3]>>

\* C6: change_color returns a raster in which each pixel keeps the alpha it had
\* in the input, pixels of alpha 0 keep their R,G,B and pixels of alpha > 0 get
\* the new colour's; change_transparency returns a raster in which each pixel
\* keeps its R,G,B.
C6_ChannelsKept ==
    \A i \in DOMAIN calls :
        LET c == calls[i]
        IN  /\ c.fn = "change_color" =>
                /\ ~c.raised
                /\ c.result.w = c.saw.w /\ c.result.h = c.saw.h
                /\ \A p \in Coords(c.saw.w, c.saw.h) :
                      /\ c.result.px[p][4] = AlphaOf(c.saw, p)
                      /\ AlphaOf(c.saw, p) = 0 => RGBOf(c.result, p) = RGBOf(c.saw, p)
                      /\ AlphaOf(c.saw, p) > 0 => RGBOf(c.result, p) = c.arg.rgb
            /\ c.fn = "change_transparency" =>
                /\ c.result.w = c.saw.w /\ c.result.h = c.saw.h
                /\ \A p \in Coords(c.saw.w, c.saw.h) :
                      RGBOf(c.result, p) = RGBOf(c.saw, p)

\* change_color has run on a raster with transparent and visible pixels, then
\* change_transparency on its result.
C6_Witness ==
    /\ Len(calls) = 2
    /\ calls[1].fn = "change_color" /\ calls[2].fn = "change_transparency"
    /\ \E p, q \in DOMAIN calls[1].saw.px :
          AlphaOf(calls[1].saw, p) = 0 /\ AlphaOf(calls[1].saw, q) = 128
    /\ calls[2].arg = 30

\* ---- the callbacks

\* A step in which the job runner ran and reported a failed node.
FailedRun ==
    /\ ui'.event = "run"
    /\ runner'.runs = runner.runs + 1
    /\ \E id \in DOMAIN runner'.outnodes : runner'.outnodes[id].status = "failed"

\* C3: when the job runner reports a failed node, run_job leaves the output
\* panel's children as they were, reports the node as failed in nodes_status,
\* and adds no failed preview_image node's result to the children.
C3_FailedRunKeepsOutput ==
    [][FailedRun =>
        /\ output' = output
        /\ \A id \in DOMAIN runner'.outnodes :
              runner'.outnodes[id].status = "failed" =>
                  /\ \E m \in nodes_status' : id \in DOMAIN m /\ m[id] = "failed"
                  /\ runner'.outnodes[id].type = "__main__.preview_image" =>
                        \A ch \in output' : \A k \in DOMAIN ch :
                            ch[k] # runner'.outnodes[id].result
      ]_vars

\* C10: Save, Restore and Clear never run the job runner and never change the
\* output panel or the node statuses; the store is unset or holds a non-empty
\* graph (Save of an empty graph leaves it unchanged, Clear empties the editor
\* without touching it); Restore sets the editor graph to the graph that was in
\* the editor at the latest Save with a non-empty graph, and leaves it
\* unchanged when there was none.
C10_SaveRestoreClear ==
    /\ [](store = Unset \/ \E g \in store : DOMAIN g # {})
    /\ [][/\ ui'.event \in {"save", "restore", "clear"} =>
                /\ output' = output
                /\ nodes_status' = nodes_status
                /\ runner' = runner
          /\ ui'.event = "save" =>
                /\ nodes' = nodes
                /\ Falsy(nodes) => store' = store
                /\ ~Falsy(nodes) => store' = nodes
          /\ ui'.event = "clear" => (nodes' = {EmptyGraph} /\ store' = store)
          /\ ui'.event = "restore" =>
                /\ store' = store
                /\ nodes' = IF ui.saved = Unset THEN nodes ELSE ui.saved
         ]_vars

\* After runs and a Save, the editor was changed and Restore brought the saved
\* graph back while the output of the last run is still shown.
C10_Witness ==
    /\ ui.event = "restore"
    /\ ui.saved # Unset /\ nodes = ui.saved /\ store = ui.saved
    /\ runner.runs >= 1
    /\ output # Unset

====
